---- MODULE Spec2Model ----
(***************************************************************************)
(* A model of rib_drawer: the airfoil model and mixer (airfoilhandler.py), *)
(* the polyline offset (dxfdrawer.py), one Rib.draw pass and the batch     *)
(* run (ribhandler.py, main.py).                                           *)
(*                                                                         *)
(* Floating-point numbers are modelled as exact rationals <<n, d>> in      *)
(* lowest terms with d > 0, extended IEEE-style by inf = <<1, 0>>,         *)
(* -inf = <<-1, 0>> and nan = <<0, 0>>.  A point is a pair <<x, y>> of     *)
(* such numbers; a point sequence (numpy array of shape (n, 2)) is a       *)
(* sequence of points.                                                     *)
(***************************************************************************)
EXTENDS Integers, Sequences, FiniteSets, TLC

VARIABLES
    call,       \* the pending call of a pure function: its name and arguments
    ret,        \* what that call returned or raised ("pending" before it ran)
    pc,         \* where the run is: start, read_unique_airfoils, draw_each, done, aborted
    table,      \* the lines of the rib-specification file (two header lines first)
    files,      \* the airfoil coordinate files on disk, by airfoil name
    ribs,       \* RibCollection.__ribs
    names,      \* read_unique_airfoils: airfoil_names, in order of first use
    loaded,     \* read_unique_airfoils: the keys of its local dict airfoils
    airfoils,   \* RibCollection.airfoils: the keys of the published catalog
    rib_idx,    \* draw_each: the 1-based index of the rib being drawn (0: none yet)
    step,       \* Rib.draw: the statement the current pass is at (idle: not in a pass)
    handles,    \* every drawing created by dxfdrawer.newfile, with the calls made on it
    derived,    \* per rib: the cached fields a pass has written, and the two centres
    disk,       \* the saved artifacts, by path
    error       \* the exception that ended the run ("none" while there is none)

fnvars == <<call, ret>>
runvars == <<pc, table, files, ribs, names, loaded, airfoils, rib_idx, step,
             handles, derived, disk, error>>
vars == <<call, ret, pc, table, files, ribs, names, loaded, airfoils, rib_idx,
          step, handles, derived, disk, error>>

(***************************************************************************)
(* Numbers                                                                 *)
(***************************************************************************)
Abs(n) == IF n < 0 THEN -n ELSE n

Sign(n) == IF n < 0 THEN -1 ELSE IF n = 0 THEN 0 ELSE 1

RECURSIVE GCD(_, _)
GCD(a, b) == IF b = 0 THEN a ELSE GCD(b, a % b)

\* the number n/d (d = 0 gives inf, -inf or nan)
Q(n, d) ==
    IF d = 0 THEN <<Sign(n), 0>>
    ELSE LET g == GCD(Abs(n), Abs(d))
         IN  <<(Sign(d) * n) \div g, Abs(d) \div g>>

QInt(n) == <<n, 1>>
NaN == <<0, 0>>
IsFinite(a) == a[2] # 0

QNeg(a) == <<-a[1], a[2]>>

\* the sum over the least common denominator
QAdd(a, b) ==
    IF IsFinite(a) /\ IsFinite(b)
    THEN LET g == GCD(a[2], b[2])
         IN  Q(a[1] * (b[2] \div g) + b[1] * (a[2] \div g), (a[2] \div g) * b[2])
    ELSE IF a = NaN \/ b = NaN THEN NaN
    ELSE IF IsFinite(a) THEN b
    ELSE IF IsFinite(b) THEN a
    ELSE IF a = b THEN a ELSE NaN

QSub(a, b) == QAdd(a, QNeg(b))

\* the product, common factors cancelled crosswise first; 0 * inf = nan comes
\* out of the normalisation: Q(0, 0)
QMul(a, b) ==
    IF IsFinite(a) /\ IsFinite(b)
    THEN LET g == GCD(Abs(a[1]), b[2])
             h == GCD(Abs(b[1]), a[2])
         IN  Q((a[1] \div g) * (b[1] \div h), (a[2] \div h) * (b[2] \div g))
    ELSE Q(a[1] * b[1], a[2] * b[2])

\* numpy float division: x / 0.0 is inf, -inf or nan (a warning, no exception)
QDiv(a, b) ==
    IF b = NaN \/ a = NaN THEN NaN
    ELSE IF ~IsFinite(b) THEN (IF IsFinite(a) THEN QInt(0) ELSE NaN)
    ELSE IF b[1] = 0 THEN <<Sign(a[1]), 0>>
    ELSE QMul(a, <<Sign(b[1]) * b[2], Abs(b[1])>>)

\* the order of the floats; every comparison with nan is false
QOrd(a) == IF IsFinite(a) THEN 0 ELSE a[1]

\* n/d < m/e for positive d and e, by whole parts and then, when these are
\* equal, by the reciprocals of the fractional parts
RECURSIVE FracLt(_, _, _, _)
FracLt(n, d, m, e) ==
    IF n \div d # m \div e THEN n \div d < m \div e
    ELSE IF m % e = 0 THEN FALSE
    ELSE IF n % d = 0 THEN TRUE
    ELSE FracLt(e, m % e, d, n % d)

QLt(a, b) ==
    /\ a # NaN /\ b # NaN
    /\ IF IsFinite(a) /\ IsFinite(b) THEN FracLt(a[1], a[2], b[1], b[2])
       ELSE QOrd(a) < QOrd(b)

QLe(a, b) == a # NaN /\ b # NaN /\ (a = b \/ QLt(a, b))

Pt(x, y) == <<x, y>>
PX(p) == p[1]
PY(p) == p[2]

\* a sequence given by a rule, evaluated once and held as an array
Array(f) == f \o <<>>

Reverse(s) == Array([i \in 1..Len(s) |-> s[Len(s) + 1 - i]])

(***************************************************************************)
(* airfoilhandler.py                                                       *)
(***************************************************************************)
NUM_POINTS_FOR_MIX == 90

\* np.argmin(points[:, 0]) as a 1-based index: the first index of the least x
ArgMinX(points) ==
    CHOOSE i \in 1..Len(points) :
        /\ \A j \in 1..Len(points) : QLe(PX(points[i]), PX(points[j]))
        /\ \A j \in 1..(i - 1) : QLt(PX(points[i]), PX(points[j]))

\* a plausible slip: the suffix starts after the leading edge
get_points_lower_excl(points, filter) ==
    IF filter = "all" THEN points
    ELSE IF filter = "upper" THEN SubSeq(points, 1, ArgMinX(points))
    ELSE SubSeq(points, ArgMinX(points) + 1, Len(points))

\* Airfoil.get_points: points[:idx+1] and points[idx:] with idx the 0-based argmin
get_points(points, filter) ==
    IF filter = "all" THEN points
    ELSE IF filter = "upper" THEN SubSeq(points, 1, ArgMinX(points))
    ELSE SubSeq(points, ArgMinX(points), Len(points))

\* np.linspace(0, 1, NUM_POINTS_FOR_MIX), 1-based
Linspace01 ==
    Array([i \in 1..NUM_POINTS_FOR_MIX |-> Q(i - 1, NUM_POINTS_FOR_MIX - 1)])

\* insertion of p into an x-sorted sequence, after the points of equal x (stable)
RECURSIVE InsertByX(_, _)
InsertByX(s, p) ==
    IF s = <<>> THEN <<p>>
    ELSE IF QLt(PX(p), PX(Head(s))) THEN <<p>> \o s
    ELSE <<Head(s)>> \o InsertByX(Tail(s), p)

\* interp1d's argsort of x (assume_sorted=False): a stable sort by x
RECURSIVE SortByX(_)
SortByX(s) ==
    IF s = <<>> THEN <<>>
    ELSE InsertByX(SortByX(SubSeq(s, 1, Len(s) - 1)), s[Len(s)])

\* np.searchsorted(x, q), side left: the number of samples with x < q
SearchSorted(sorted, q) == Cardinality({i \in 1..Len(sorted) : QLt(PX(sorted[i]), q)})

Clip(v, lo, hi) == IF v < lo THEN lo ELSE IF v > hi THEN hi ELSE v

\* interp1d(..., kind='linear') evaluated at one q inside the samples' range:
\* slope * (q - x_lo) + y_lo on the bracketing samples
LinearAt(sorted, q) ==
    LET idx == Clip(SearchSorted(sorted, q), 1, Len(sorted) - 1)
        lo == sorted[idx]
        hi == sorted[idx + 1]
        slope == QDiv(QSub(PY(hi), PY(lo)), QSub(PX(hi), PX(lo)))
    IN  QAdd(QMul(slope, QSub(q, PX(lo))), PY(lo))

\* interp1d raises ValueError for fewer than two samples and (bounds_error) for
\* a query outside the samples' range
InterpRaises(points, qx) ==
    \/ Len(points) < 2
    \/ LET sorted == SortByX(points)
       IN  \E i \in 1..Len(qx) :
               \/ QLt(qx[i], PX(sorted[1]))
               \/ QLt(PX(sorted[Len(sorted)]), qx[i])

\* interp1d(points[:, 0], points[:, 1], kind='linear')(qx)
Interp1d(points, qx) ==
    LET sorted == SortByX(points)
    IN  Array([i \in 1..Len(qx) |-> LinearAt(sorted, qx[i])])

\* a plausible slip: the blend weights the other way round
Blend_swapped(ya, yb, ratio) ==
    Array([i \in 1..Len(ya) |->
        QAdd(QMul(ya[i], QSub(QInt(1), ratio)), QMul(yb[i], ratio))])

\* interpolated[0]*mix_ratio + interpolated[1]*(1-mix_ratio)
Blend(ya, yb, ratio) ==
    Array([i \in 1..Len(ya) |->
        QAdd(QMul(ya[i], ratio), QMul(yb[i], QSub(QInt(1), ratio)))])

\* np.concatenate([upper_y[::-1], lower_y[1:]]) zipped with the mirrored qx
Loop(qx, upper_y, lower_y) ==
    LET y == Reverse(upper_y) \o Tail(lower_y)
        x == Reverse(qx) \o Tail(qx)
    IN  Array([i \in 1..Len(x) |-> Pt(x[i], y[i])])

Raised(kind) == [kind |-> kind, points |-> <<>>]
Returned(points) == [kind |-> "ok", points |-> points]

\* mix(airfoil0, airfoil1, mix_ratio): the new Airfoil's points, or the
\* exception interp1d raises
mix(airfoil0, airfoil1, mix_ratio) ==
    LET qx == Linspace01
        raw == << get_points(airfoil0, "upper"), get_points(airfoil1, "upper"),
                  get_points(airfoil0, "lower"), get_points(airfoil1, "lower") >>
    IN  IF \E k \in 1..4 : InterpRaises(raw[k], qx) THEN Raised("ValueError")
        ELSE LET interpolated == Array([k \in 1..4 |-> Interp1d(raw[k], qx)])
                 upper_y == Blend(interpolated[1], interpolated[2], mix_ratio)
                 lower_y == Blend(interpolated[3], interpolated[4], mix_ratio)
             IN  Returned(Loop(qx, upper_y, lower_y))

(***************************************************************************)
(* dxfdrawer.py: angles are held as the unit vector <<cos, sin>> they      *)
(* point along, which is exact wherever the vector's length is rational.   *)
(***************************************************************************)
IsSquare(n) == \E r \in 0..n : r * r = n

ISqrt(n) == CHOOSE r \in 0..n : r * r = n

\* np.sqrt of a rational whose root is rational
QSqrt(a) == Q(ISqrt(a[1]), ISqrt(a[2]))

VSub(p, q) == Pt(QSub(PX(p), PX(q)), QSub(PY(p), PY(q)))
VAdd(p, q) == Pt(QAdd(PX(p), PX(q)), QAdd(PY(p), PY(q)))
VScale(p, k) == Pt(QMul(PX(p), k), QMul(PY(p), k))
VDot(p, q) == QAdd(QMul(PX(p), PX(q)), QMul(PY(p), PY(q)))
VCross(p, q) == QSub(QMul(PX(p), PY(q)), QMul(PY(p), PX(q)))
Zero2 == Pt(QInt(0), QInt(0))

\* np.arctan2(dy, dx): the angle of the vector (dx, dy); arctan2(0, 0) is 0
ArcTan2(dy, dx) ==
    IF dx = QInt(0) /\ dy = QInt(0) THEN Pt(QInt(1), QInt(0))
    ELSE LET n == QSqrt(QAdd(QMul(dx, dx), QMul(dy, dy)))
         IN  Pt(QDiv(dx, n), QDiv(dy, n))

PlusHalfPi(theta) == Pt(QNeg(theta[2]), theta[1])
PlusPi(theta) == Pt(QNeg(theta[1]), QNeg(theta[2]))
\* np.pi / 2 and -np.pi / 2
HalfPi == Pt(QInt(0), QInt(1))
MinusHalfPi == Pt(QInt(0), QInt(-1))
Cos(theta) == theta[1]
Sin(theta) == theta[2]

\* the two points the tangent at 1-based index i is taken between: the
\* neighbours of an interior point, the single adjacent segment at an end
TangentFrom(points, i) == points[IF i = 1 THEN 1 ELSE i - 1]
TangentTo(points, i) == points[IF i = Len(points) THEN i ELSE i + 1]

\* a plausible slip: a forward difference in place of the central one
offset_theta_forward(points, i, direction) ==
    LET a == IF i = Len(points) THEN points[i - 1] ELSE points[i]
        b == IF i = Len(points) THEN points[i] ELSE points[i + 1]
        theta == PlusHalfPi(ArcTan2(QSub(PY(b), PY(a)), QSub(PX(b), PX(a))))
    IN  IF direction = "righthand" THEN PlusPi(theta) ELSE theta

\* offset: theta = arctan2(...) + pi/2, plus pi when direction is righthand
offset_theta(points, i, direction) ==
    LET a == TangentFrom(points, i)
        b == TangentTo(points, i)
        theta == PlusHalfPi(ArcTan2(QSub(PY(b), PY(a)), QSub(PX(b), PX(a))))
    IN  IF direction = "righthand" THEN PlusPi(theta) ELSE theta

\* offset(points, distance, direction): points[1] of a shorter array is an
\* IndexError
offset(points, distance, direction) ==
    IF Len(points) < 2 THEN Raised("IndexError")
    ELSE Returned(Array([i \in 1..Len(points) |->
            LET theta == offset_theta(points, i, direction)
            IN  VAdd(points[i], VScale(Pt(Cos(theta), Sin(theta)), distance))]))

\* Vec2.norm
Vec2Norm(v) == QSqrt(VDot(v, v))

\* Vec2.unit: self / self.norm, which is self * (1 / norm)
Vec2Unit(v) == VScale(v, QDiv(QInt(1), Vec2Norm(v)))

\* Vec2.rotate_rad
Vec2Rotate(v, angle) ==
    Pt(QSub(QMul(PX(v), Cos(angle)), QMul(PY(v), Sin(angle))),
       QAdd(QMul(PX(v), Sin(angle)), QMul(PY(v), Cos(angle))))

\* Vec2Arr.offset: every point moved along the rotated unit tangent
Vec2Arr_offset(points, distance, direction) ==
    LET angle == IF direction = "lefthand" THEN HalfPi ELSE MinusHalfPi
    IN  Returned(Array([i \in 1..Len(points) |->
            LET j == IF i = 1 THEN 1 ELSE i - 1
                k == IF i = Len(points) THEN i ELSE i + 1
            IN  VAdd(points[i],
                     VScale(Vec2Rotate(Vec2Unit(VSub(points[k], points[j])), angle),
                            distance))]))

\* direct(dist, theta): the vector of length dist at angle theta
direct(dist, theta) == Pt(QMul(dist, Cos(theta)), QMul(dist, Sin(theta)))

\* a plausible slip: the ratio measured from the other end of the segment
divide_from_end(points, ratio) ==
    LET d == VSub(points[1], points[2])
    IN  VAdd(points[2], VScale(d, ratio))

\* divide(points, ratio): points[0] + ratio * (points[1] - points[0])
divide(points, ratio) ==
    LET d == VSub(points[2], points[1])
    IN  VAdd(points[1], VScale(d, ratio))

(***************************************************************************)
(* ribhandler.py.  A call on a drawing (DxfFile) is recorded with the      *)
(* role of the primitive in the rib; point lists of polylines are not      *)
(* carried, circle centres and radii are.                                  *)
(***************************************************************************)
SinkCall(op, role, content, center, radius) ==
    [op |-> op, role |-> role, content |-> content, center |-> center, radius |-> radius]

Polyline(role) == SinkCall("polyline", role, "", Zero2, QInt(0))
Circle(role, center, radius) == SinkCall("circle", role, "", center, radius)
Text(content, pos) == SinkCall("text", "rib_name", content, pos, QInt(0))
Save == SinkCall("save", "save", "", Zero2, QInt(0))

None == "<None>"

\* the float(row[k]) conversions of one table row raise ValueError (or the row
\* is too short: IndexError) when a cell is not a number
RowRaises(row) == ~row.cells_ok

\* for row in table[2:]
DataRows(lines) == SubSeq(lines, 3, Len(lines))

\* RibCollection.__set_ribdata: one Rib per row; Rib.__init__ turns an empty
\* second airfoil name into None
set_ribdata(rows) ==
    [i \in 1..Len(rows) |->
        [ name |-> rows[i].rib_name,
          airfoil_name0 |-> rows[i].airfoil0,
          airfoil_name1 |-> IF rows[i].airfoil1 = "" THEN None ELSE rows[i].airfoil1,
          mix_ratio |-> rows[i].mix_ratio,
          chord |-> rows[i].chord,
          aoa |-> rows[i].aoa,
          beam_hole_x |-> rows[i].beam_hole_x,
          beam_diameter |-> rows[i].beam_diameter,
          rearspar |-> rows[i].rearspar,
          stringers |-> rows[i].stringer_positions,
          upper_plank_end_x |-> rows[i].upper_plank_end_x,
          lower_plank_end_x |-> rows[i].lower_plank_end_x,
          bracing_hole_pos |-> rows[i].bracing_hole_pos ]]

InSeq(x, s) == \E i \in 1..Len(s) : s[i] = x

\* read_unique_airfoils, first loop: the distinct names in order of first use
RECURSIVE UniqueNames(_, _)
UniqueNames(rs, acc) ==
    IF rs = <<>> THEN acc
    ELSE LET rib == Head(rs)
             acc0 == IF InSeq(rib.airfoil_name0, acc) THEN acc
                     ELSE Append(acc, rib.airfoil_name0)
             acc1 == IF rib.airfoil_name1 # None /\ ~InSeq(rib.airfoil_name1, acc0)
                     THEN Append(acc0, rib.airfoil_name1) ELSE acc0
         IN  UniqueNames(Tail(rs), acc1)

\* a plausible slip: a loader that accepts any file
LoadtxtRaises_never(file) == FALSE

\* np.loadtxt(filepath, skiprows=1, delimiter=' ') raises ValueError on a
\* non-numeric field or a row of another length
LoadtxtRaises(file) == file = "malformed"

QAbs(a) == <<Abs(a[1]), a[2]>>

\* _Stringer.get_hole_nodes indexes [-1] of the outline points left of the
\* stringer station and [0] of those right of it: IndexError when either is
\* empty.  The rib outline's stations span the chord (the few millimetres by
\* which the offset shifts its ends are not modelled).
HoleNodesRaises(rib, position) ==
    LET stringer_x_abs == QMul(rib.chord, QAbs(position))
    IN  ~(QLt(QInt(0), stringer_x_abs) /\ QLt(stringer_x_abs, rib.chord))

\* the stringers drawn before the first one whose hole cannot be placed
RECURSIVE DrawableStringers(_, _)
DrawableStringers(rib, stringers) ==
    IF stringers = <<>> \/ HoleNodesRaises(rib, Head(stringers)) THEN <<>>
    ELSE <<Head(stringers)>> \o DrawableStringers(rib, Tail(stringers))

AirfoilOutlineCalls == <<Polyline("wing_outline"), Polyline("chordline")>>

RibOutlineCalls == <<Polyline("rib_outline")>>

\* a plausible slip: the hole polyline emitted twice per stringer
StringerHoleCalls_twice(rib) ==
    LET n == Len(DrawableStringers(rib, rib.stringers))
    IN  [i \in 1..(2 * n) |-> Polyline("stringer_hole")]

\* __draw_stringer_holes: one polyline per stringer, in order
StringerHoleCalls(rib) ==
    [i \in 1..Len(DrawableStringers(rib, rib.stringers)) |-> Polyline("stringer_hole")]

\* __draw_main_beam_hole: the circle, then the two reference lines
MainBeamHoleCalls(rib, beam_hole_center) ==
    << Circle("beam_hole", beam_hole_center, QDiv(rib.beam_diameter, QInt(2))),
       Polyline("beam_cross_h"), Polyline("beam_cross_v") >>

\* __write_ribname
RibnameCalls(rib, beam_hole_center) == <<Text(rib.name, beam_hole_center)>>

\* a plausible slip: the centre marks drawn before the hole
RearsparHoleCalls_marks_first(rib, center) ==
    << Polyline("rearspar_cross_h"), Polyline("rearspar_cross_v"),
       Circle("rearspar_hole", center, QDiv(rib.rearspar.diameter, QInt(2))) >>

\* __draw_rearspar_hole: the circle, then the two centre marks
RearsparHoleCalls(rib, center) ==
    << Circle("rearspar_hole", center, QDiv(rib.rearspar.diameter, QInt(2))),
       Polyline("rearspar_cross_h"), Polyline("rearspar_cross_v") >>

\* __draw_bracing_holes
BracingHoleCalls(rib, beam_ctr, rearspar_ctr) ==
    LET bracing_hole_pos == rib.bracing_hole_pos
        both == << divide(<<beam_ctr, rearspar_ctr>>, bracing_hole_pos),
                   divide(<<beam_ctr, rearspar_ctr>>, QSub(QInt(1), bracing_hole_pos)) >>
        centers == IF bracing_hole_pos = Q(1, 2) THEN SubSeq(both, 1, 1) ELSE both
    IN  [i \in 1..Len(centers) |->
            Circle("bracing_hole", centers[i], QDiv(rib.rearspar.diameter, QInt(2)))]

(***************************************************************************)
(* The mixer applied to airfoils drawn from a bounded family: a trailing   *)
(* edge at (1, 0), one knot per surface at x = k/KnotDen, the leading edge *)
(* at (0, 0); and one airfoil whose surfaces stop short of x = 1.          *)
(***************************************************************************)
KnotDen == 3
MaxY == 2
RatioDen == 2

Knotted(k, yu) ==
    << Pt(QInt(1), QInt(0)), Pt(Q(k, KnotDen), QInt(yu)), Pt(QInt(0), QInt(0)),
       Pt(Q(k, KnotDen), QInt(yu - MaxY - 1)), Pt(QInt(1), QInt(0)) >>

ShortAirfoil ==
    << Pt(Q(1, 2), QInt(0)), Pt(QInt(0), QInt(0)), Pt(Q(1, 2), QInt(0)) >>

ValidAirfoils == {Knotted(k, yu) : k \in 1..(KnotDen - 1), yu \in 1..MaxY}

MixAirfoils == ValidAirfoils \cup {ShortAirfoil}

Ratios == {Q(k, RatioDen) : k \in 0..RatioDen}

Pending == [kind |-> "pending", points |-> <<>>]

MixReturned == call.fn = "mix" /\ ret.kind = "ok"

\* the y of a surface (strictly monotone in x) at station q, read off the
\* segment of the polyline that spans q
SurfaceY(surface, q) ==
    LET i == CHOOSE i \in 1..(Len(surface) - 1) :
                 \/ QLe(PX(surface[i]), q) /\ QLe(q, PX(surface[i + 1]))
                 \/ QLe(PX(surface[i + 1]), q) /\ QLe(q, PX(surface[i]))
        p == surface[i]
        n == surface[i + 1]
    IN  QAdd(PY(p), QDiv(QMul(QSub(PY(n), PY(p)), QSub(q, PX(p))),
                         QSub(PX(n), PX(p))))

\* both surfaces of the airfoil `mixed` carry, at each of their stations, the
\* y of the same surface of `airfoil`
SameSurfaces(mixed, airfoil) ==
    \A side \in {"upper", "lower"} :
        LET got == get_points(mixed, side)
        IN  \A i \in 1..Len(got) :
                PY(got[i]) = SurfaceY(get_points(airfoil, side), PX(got[i]))

NoFile == [n \in {} |-> <<>>]

\* the run's variables while only a function is being applied
RunIdle ==
    /\ pc = "start" /\ table = <<>> /\ files = NoFile /\ ribs = <<>>
    /\ names = <<>> /\ loaded = {} /\ airfoils = {} /\ rib_idx = 0
    /\ step = "idle" /\ handles = <<>> /\ derived = <<>> /\ disk = NoFile
    /\ error = "none"

InitMix ==
    /\ RunIdle
    /\ call \in [fn : {"mix"}, airfoil0 : MixAirfoils, airfoil1 : MixAirfoils,
                 mix_ratio : Ratios]
    /\ ret = Pending

CallMix ==
    /\ call.fn = "mix"
    /\ ret = Pending
    /\ ret' = mix(call.airfoil0, call.airfoil1, call.mix_ratio)
    /\ UNCHANGED <<call, runvars>>

NextMix == CallMix

SpecMix == InitMix /\ [][NextMix]_vars

\* C1: mix(a, b, 0) has the surface y-values of a (the first argument) on the
\* common grid, and mix(a, b, 1) those of b (the second argument).
C1_MixIdentity ==
    MixReturned =>
        /\ call.mix_ratio = QInt(0) => SameSurfaces(ret.points, call.airfoil0)
        /\ call.mix_ratio = QInt(1) => SameSurfaces(ret.points, call.airfoil1)

\* the blend r*A + (1-r)*B of the two airfoils' surfaces at station q
Blended(side, q) ==
    QAdd(QMul(call.mix_ratio, SurfaceY(get_points(call.airfoil0, side), q)),
         QMul(QSub(QInt(1), call.mix_ratio),
              SurfaceY(get_points(call.airfoil1, side), q)))

GridX(i) == Q(i - 1, NUM_POINTS_FOR_MIX - 1)

MaxGrid == 1
MaxPoints == 3

GridPoints == {Pt(QInt(x), QInt(y)) : x \in 0..MaxGrid, y \in 0..MaxGrid}

GridAirfoils == UNION {[1..n -> GridPoints] : n \in 1..MaxPoints}

Filters == {"all", "upper", "lower"}

InitAirfoil ==
    /\ RunIdle
    /\ call \in [fn : {"get_points"}, points : GridAirfoils]
    /\ ret = [kind |-> "ok", got |-> {}, all |-> <<>>, upper |-> <<>>, lower |-> <<>>]

CallGetPoints(filter) ==
    /\ call.fn = "get_points"
    /\ filter \notin ret.got
    /\ ret' = [ret EXCEPT !.got = @ \cup {filter},
                           ![filter] = get_points(call.points, filter)]
    /\ UNCHANGED <<call, runvars>>

NextAirfoil == \E filter \in Filters : CallGetPoints(filter)

SpecAirfoil == InitAirfoil /\ [][NextAirfoil]_vars

GotAllFilters == call.fn = "get_points" /\ ret.got = Filters

\* C3: for an Airfoil with a non-empty point sequence the last point of 'upper'
\* is the first point of 'lower', it is a point of least x of 'all', and
\* 'upper' followed by 'lower' without its first point is 'all', in order.
C3_LeadingEdgeSplit ==
    GotAllFilters =>
        /\ ret.upper # <<>> /\ ret.lower # <<>>
        /\ ret.upper[Len(ret.upper)] = ret.lower[1]
        /\ \E i \in 1..Len(ret.all) : ret.all[i] = ret.lower[1]
        /\ \A i \in 1..Len(ret.all) : QLe(PX(ret.lower[1]), PX(ret.all[i]))
        /\ ret.upper \o Tail(ret.lower) = ret.all
        /\ ret.all = call.points

C3_Witness ==
    /\ GotAllFilters
    /\ Len(ret.upper) > 1
    /\ Len(ret.lower) > 1

(***************************************************************************)
(* The two offset routines applied to the polylines on the lattice         *)
(* (4i, 3j), whose tangents have rational length (0, 3, 4, 5, ...).        *)
(***************************************************************************)
MaxStep == 1
MaxLen == 3

Lattice == {Pt(QInt(4 * i), QInt(3 * j)) : i \in 0..MaxStep, j \in 0..MaxStep}

Tangent(points, i) == VSub(TangentTo(points, i), TangentFrom(points, i))

RationalTangents(points) ==
    \A i \in 1..Len(points) :
        LET t == Tangent(points, i) IN IsSquare(VDot(t, t)[1])

Polylines ==
    {points \in UNION {[1..n -> Lattice] : n \in 1..MaxLen} : RationalTangents(points)}

Distances == {QInt(1), QInt(2), Q(-1, 2)}

Directions == {"lefthand", "righthand"}

InitOffset ==
    /\ RunIdle
    /\ call \in [fn : {"offset", "Vec2Arr.offset"}, points : Polylines,
                 distance : Distances, direction : Directions]
    /\ ret = Pending

CallOffset ==
    /\ call.fn = "offset"
    /\ ret = Pending
    /\ ret' = offset(call.points, call.distance, call.direction)
    /\ UNCHANGED <<call, runvars>>

CallVec2ArrOffset ==
    /\ call.fn = "Vec2Arr.offset"
    /\ ret = Pending
    /\ ret' = Vec2Arr_offset(call.points, call.distance, call.direction)
    /\ UNCHANGED <<call, runvars>>

NextOffset == CallOffset \/ CallVec2ArrOffset

SpecOffset == InitOffset /\ [][NextOffset]_vars

OffsetCalled == call.fn \in {"offset", "Vec2Arr.offset"} /\ ret # Pending

ZeroTangentAt(points, i) == Tangent(points, i) = Zero2

\* the displacement d is `distance` along the normal of the tangent t, to the
\* left of travel for lefthand and to the right for righthand
AlongNormal(d, t, distance, direction) ==
    LET side == IF direction = "lefthand" THEN 1 ELSE -1
        len == Vec2Norm(t)
    IN  /\ VDot(d, t) = QInt(0)
        /\ VCross(t, d) = QMul(QMul(distance, len), QInt(side))

C8_DegenerateRaises ==
    (OffsetCalled /\ \E i \in 1..Len(call.points) : ZeroTangentAt(call.points, i)) =>
        ret.kind # "ok"

(***************************************************************************)
(* The run: the rib table and the airfoil files are the inputs; main.py    *)
(* parses the table, loads the airfoils, then draws rib after rib.         *)
(***************************************************************************)
MaxRibs == 2

AirfoilNames == {"a", "b"}

Header == [cells_ok |-> FALSE, rib_name |-> "name", airfoil0 |-> "", airfoil1 |-> "",
           mix_ratio |-> QInt(0), chord |-> QInt(0), aoa |-> QInt(0),
           beam_hole_x |-> QInt(0), beam_diameter |-> QInt(0),
           rearspar |-> [dist |-> QInt(0), angle |-> QInt(0), diameter |-> QInt(0)],
           upper_plank_end_x |-> QInt(0), lower_plank_end_x |-> QInt(0),
           bracing_hole_pos |-> QInt(0), stringer_positions |-> <<>>]

\* the row of the end-to-end example: one airfoil, no stringers
RowR1 == [cells_ok |-> TRUE, rib_name |-> "R1", airfoil0 |-> "a", airfoil1 |-> "",
          mix_ratio |-> QInt(0), chord |-> QInt(200), aoa |-> QInt(2),
          beam_hole_x |-> Q(3, 10), beam_diameter |-> QInt(10),
          rearspar |-> [dist |-> QInt(30), angle |-> QInt(10), diameter |-> QInt(6)],
          upper_plank_end_x |-> Q(1, 4), lower_plank_end_x |-> Q(1, 5),
          bracing_hole_pos |-> Q(2, 5), stringer_positions |-> <<>>]

\* a mixed rib with a stringer on each surface and the bracing hole midway
RowR2 == [RowR1 EXCEPT !.rib_name = "R2", !.airfoil1 = "b", !.mix_ratio = Q(1, 2),
                       !.bracing_hole_pos = Q(1, 2),
                       !.stringer_positions = <<Q(1, 2), Q(-1, 2)>>]

\* a rib whose second stringer lies behind the trailing edge
RowR3 == [RowR1 EXCEPT !.rib_name = "R3", !.airfoil0 = "b",
                       !.stringer_positions = <<Q(3, 10), QInt(2)>>]

\* a second row named R1
RowR1b == [RowR1 EXCEPT !.airfoil0 = "b", !.bracing_hole_pos = Q(1, 2),
                        !.stringer_positions = <<Q(-1, 2)>>]

\* a row with a cell that is not a number
RowBad == [RowR1 EXCEPT !.cells_ok = FALSE, !.rib_name = "R4"]

Rows == {RowR1, RowR2, RowR3, RowR1b, RowBad}

Tables == {<<Header, Header>> \o rows : rows \in UNION {[1..n -> Rows] : n \in 0..MaxRibs}}

\* what np.interp reads off the rib outline at the beam station: <<upper_y, lower_y>>
OutlineYs == {<<QInt(8), QInt(-4)>>, <<QInt(6), QInt(-6)>>}

\* the angles the rear spar may lie at, seen from the main beam
SparAngles == {Pt(QInt(1), QInt(0)), Pt(Q(4, 5), Q(-3, 5))}

Init ==
    /\ call = [fn |-> "main"]
    /\ ret = Pending
    /\ pc = "start"
    /\ table \in Tables
    /\ files \in [AirfoilNames -> {"ok", "malformed"}]
    /\ ribs = <<>> /\ names = <<>> /\ loaded = {} /\ airfoils = {}
    /\ rib_idx = 0 /\ step = "idle" /\ handles = <<>> /\ derived = <<>>
    /\ disk = NoFile /\ error = "none"

Abort(exception) == pc' = "aborted" /\ error' = exception

\* The table is read by one of two routes, both open at the start of a run.
\* main.py, Config.read_rib_specs: the rows are parsed, then
\* ribhandler.RibCollection(table, self) is called; the class defines no
\* __init__, so the call raises TypeError
read_rib_specs ==
    /\ pc = "start"
    /\ IF \E i \in 1..Len(DataRows(table)) : RowRaises(DataRows(table)[i])
       THEN Abort("ValueError")
       ELSE Abort("TypeError")
    /\ UNCHANGED <<fnvars, table, files, ribs, names, loaded, airfoils, rib_idx,
                   step, handles, derived, disk>>

\* RibCollection.load_config -> __load_ribdata -> __set_ribdata
load_ribdata ==
    /\ pc = "start"
    /\ IF \E i \in 1..Len(DataRows(table)) : RowRaises(DataRows(table)[i])
       THEN /\ Abort("ValueError")
            /\ UNCHANGED <<ribs, derived>>
       ELSE /\ ribs' = set_ribdata(DataRows(table))
            /\ derived' = [i \in 1..Len(DataRows(table)) |->
                              [written |-> <<>>, reads |-> <<>>,
                               beam_hole_center |-> Zero2,
                               rearspar_hole_center |-> Zero2]]
            /\ pc' = "read_unique_airfoils"
            /\ UNCHANGED error
    /\ UNCHANGED <<fnvars, table, files, names, loaded, airfoils, rib_idx, step,
                   handles, disk>>

\* read_unique_airfoils, lines 560-569: the names are collected
collect_airfoil_names ==
    /\ pc = "read_unique_airfoils"
    /\ names' = UniqueNames(ribs, <<>>)
    /\ loaded' = {}
    /\ pc' = "loading"
    /\ UNCHANGED <<fnvars, table, files, ribs, airfoils, rib_idx, step, handles,
                   derived, disk, error>>

\* read_unique_airfoils, one turn of the second loop: Airfoil(filepath=...)
read_airfoil ==
    /\ pc = "loading"
    /\ Cardinality(loaded) < Len(names)
    /\ LET airfoil_name == names[Cardinality(loaded) + 1]
       IN  IF LoadtxtRaises(files[airfoil_name])
           THEN Abort("ValueError") /\ UNCHANGED loaded
           ELSE loaded' = loaded \cup {airfoil_name} /\ UNCHANGED <<pc, error>>
    /\ UNCHANGED <<fnvars, table, files, ribs, names, airfoils, rib_idx, step,
                   handles, derived, disk>>

\* read_unique_airfoils, the end: self.airfoils = airfoils
publish_airfoils ==
    /\ pc = "loading"
    /\ Cardinality(loaded) = Len(names)
    /\ airfoils' = loaded
    /\ pc' = "draw_each"
    /\ UNCHANGED <<fnvars, table, files, ribs, names, loaded, rib_idx, step,
                   handles, derived, disk, error>>

Drawing(at) == pc = "draw_each" /\ step = at

ThisRib == ribs[rib_idx]

Emit(calls) == handles' = [handles EXCEPT ![Len(handles)].calls = @ \o calls]

\* a plausible slip: __draw_rib_outline reading the outline it is about to build
StepReads_own_outline(at, rib) ==
    CASE at = "rib_outline" -> <<"rib_outline">>
      [] at = "stringer_holes" ->
            IF rib.stringers = <<>> THEN <<>> ELSE <<"rib_outline">>
      [] at = "main_beam_hole" -> <<"rib_outline">>
      [] at = "ribname" -> <<"beam_hole_center">>
      [] at = "rearspar_hole" -> <<"beam_hole_center">>
      [] at = "bracing_holes" -> <<"beam_hole_center", "rearspar_hole_center">>
      [] OTHER -> <<>>

\* the derived fields a step of Rib.draw reads from the Rib: wing_outline at
\* lines 349-360, rib_outline at 379 (once a stringer is there) and 391-393,
\* __beam_hole_center at 422, 432 and 452, rearspar_hole_center at 453
StepReads(at, rib) ==
    CASE at = "rib_outline" -> <<"wing_outline">>
      [] at = "stringer_holes" ->
            IF rib.stringers = <<>> THEN <<>> ELSE <<"rib_outline">>
      [] at = "main_beam_hole" -> <<"rib_outline">>
      [] at = "ribname" -> <<"beam_hole_center">>
      [] at = "rearspar_hole" -> <<"beam_hole_center">>
      [] at = "bracing_holes" -> <<"beam_hole_center", "rearspar_hole_center">>
      [] OTHER -> <<>>

\* the current step's reads of derived fields, each noted with the fields
\* written so far in the pass, then its writes (lines 333, 371, 399, 436)
Access(writes) ==
    LET fields == StepReads(step, ThisRib)
    IN  [derived EXCEPT
            ![rib_idx].reads = @ \o [k \in 1..Len(fields) |->
                                       [ field |-> fields[k],
                                         written |-> derived[rib_idx].written ]],
            ![rib_idx].written = @ \o writes]

Write(field) == Access(<<field>>)

\* draw_each takes the next rib; Rib.draw, lines 258-267: the airfoil is looked
\* up (and mixed), the drawing is created.  A file that loaded holds an airfoil
\* the mixer and the resampler accept.
draw_begin ==
    /\ Drawing("idle")
    /\ rib_idx < Len(ribs)
    /\ rib_idx' = rib_idx + 1
    /\ LET rib == ribs[rib_idx + 1]
       IN  IF \/ rib.airfoil_name0 \notin airfoils
              \/ rib.airfoil_name1 # None /\ rib.airfoil_name1 \notin airfoils
           THEN Abort("KeyError") /\ UNCHANGED <<step, handles>>
           ELSE /\ handles' = Append(handles,
                        [rib |-> rib_idx + 1, path |-> rib.name, calls |-> <<>>])
                /\ step' = "airfoil_outline"
                /\ UNCHANGED <<pc, error>>
    /\ UNCHANGED <<fnvars, table, files, ribs, names, loaded, airfoils, derived, disk>>

draw_airfoil_outline ==
    /\ Drawing("airfoil_outline")
    /\ Emit(AirfoilOutlineCalls)
    /\ derived' = Write("wing_outline")
    /\ step' = "rib_outline"
    /\ UNCHANGED <<fnvars, pc, table, files, ribs, names, loaded, airfoils, rib_idx,
                   disk, error>>

draw_rib_outline ==
    /\ Drawing("rib_outline")
    /\ Emit(RibOutlineCalls)
    /\ derived' = Write("rib_outline")
    /\ step' = "stringer_holes"
    /\ UNCHANGED <<fnvars, pc, table, files, ribs, names, loaded, airfoils, rib_idx,
                   disk, error>>

\* the loop over the stringers; the exception of get_hole_nodes leaves Rib.draw,
\* draw_each and main
draw_stringer_holes ==
    /\ Drawing("stringer_holes")
    /\ Emit(StringerHoleCalls(ThisRib))
    /\ IF \E i \in 1..Len(ThisRib.stringers) : HoleNodesRaises(ThisRib, ThisRib.stringers[i])
       THEN Abort("IndexError") /\ UNCHANGED step
       ELSE step' = "main_beam_hole" /\ UNCHANGED <<pc, error>>
    /\ derived' = Access(<<>>)
    /\ UNCHANGED <<fnvars, table, files, ribs, names, loaded, airfoils, rib_idx,
                   disk>>

draw_main_beam_hole ==
    /\ Drawing("main_beam_hole")
    /\ \E ys \in OutlineYs :
          LET center_x_abs == QMul(ThisRib.beam_hole_x, ThisRib.chord)
              center_y == QDiv(QAdd(ys[1], ys[2]), QInt(2))
              beam_hole_center == Pt(center_x_abs, center_y)
          IN  /\ derived' = [Write("beam_hole_center") EXCEPT
                                ![rib_idx].beam_hole_center = beam_hole_center]
              /\ Emit(MainBeamHoleCalls(ThisRib, beam_hole_center))
    /\ step' = "ribname"
    /\ UNCHANGED <<fnvars, pc, table, files, ribs, names, loaded, airfoils, rib_idx,
                   disk, error>>

write_ribname ==
    /\ Drawing("ribname")
    /\ Emit(RibnameCalls(ThisRib, derived[rib_idx].beam_hole_center))
    /\ derived' = Access(<<>>)
    /\ step' = "rearspar_hole"
    /\ UNCHANGED <<fnvars, pc, table, files, ribs, names, loaded, airfoils, rib_idx,
                   disk, error>>

draw_rearspar_hole ==
    /\ Drawing("rearspar_hole")
    /\ \E theta \in SparAngles :
          LET center == VAdd(derived[rib_idx].beam_hole_center,
                             direct(ThisRib.rearspar.dist, theta))
          IN  /\ Emit(RearsparHoleCalls(ThisRib, center))
              /\ derived' = [Write("rearspar_hole_center") EXCEPT
                                ![rib_idx].rearspar_hole_center = center]
    /\ step' = "bracing_holes"
    /\ UNCHANGED <<fnvars, pc, table, files, ribs, names, loaded, airfoils, rib_idx,
                   disk, error>>

draw_bracing_holes ==
    /\ Drawing("bracing_holes")
    /\ Emit(BracingHoleCalls(ThisRib, derived[rib_idx].beam_hole_center,
                             derived[rib_idx].rearspar_hole_center))
    /\ derived' = Access(<<>>)
    /\ step' = "save"
    /\ UNCHANGED <<fnvars, pc, table, files, ribs, names, loaded, airfoils, rib_idx,
                   disk, error>>

\* self.__file.save(), and Rib.draw returns
save ==
    /\ Drawing("save")
    /\ Emit(<<Save>>)
    /\ LET path == handles[Len(handles)].path
           drawn == handles[Len(handles)].calls
       IN  disk' = [f \in DOMAIN disk \cup {path} |-> IF f = path THEN drawn ELSE disk[f]]
    /\ step' = "idle"
    /\ UNCHANGED <<fnvars, pc, table, files, ribs, names, loaded, airfoils, rib_idx,
                   derived, error>>

\* draw_each returns; main prints its last line
draw_each_return ==
    /\ Drawing("idle")
    /\ rib_idx = Len(ribs)
    /\ pc' = "done"
    /\ UNCHANGED <<fnvars, table, files, ribs, names, loaded, airfoils, rib_idx,
                   step, handles, derived, disk, error>>

Next ==
    \/ read_rib_specs
    \/ load_ribdata
    \/ collect_airfoil_names
    \/ read_airfoil
    \/ publish_airfoils
    \/ draw_begin
    \/ draw_airfoil_outline
    \/ draw_rib_outline
    \/ draw_stringer_holes
    \/ draw_main_beam_hole
    \/ write_ribname
    \/ draw_rearspar_hole
    \/ draw_bracing_holes
    \/ save
    \/ draw_each_return

Spec == Init /\ [][Next]_vars

(***************************************************************************)
(* Properties of the run                                                   *)
(***************************************************************************)
Handles == {handles[i] : i \in 1..Len(handles)}

\* the pass that created drawing h has returned from Rib.draw
PassCompleted(h) ==
    \/ h.rib < rib_idx
    \/ h.rib = rib_idx /\ step = "idle"

\* the pass that created drawing h is past __draw_bracing_holes
PastBracing(h) == PassCompleted(h) \/ (h.rib = rib_idx /\ step = "save")

CountCalls(calls, op) == Cardinality({i \in 1..Len(calls) : calls[i].op = op})

WithRole(calls, role) == SelectSeq(calls, LAMBDA c : c.role = role)

\* the place of each primitive in the order the drawing sink is to be called in
Rank(c) ==
    CASE c.role = "wing_outline" /\ c.op = "polyline" -> 1
      [] c.role = "chordline" /\ c.op = "polyline" -> 2
      [] c.role = "rib_outline" /\ c.op = "polyline" -> 3
      [] c.role = "stringer_hole" /\ c.op = "polyline" -> 4
      [] c.role = "beam_hole" /\ c.op = "circle" -> 5
      [] c.role = "beam_cross_h" /\ c.op = "polyline" -> 6
      [] c.role = "beam_cross_v" /\ c.op = "polyline" -> 7
      [] c.role = "rib_name" /\ c.op = "text" -> 8
      [] c.role = "rearspar_hole" /\ c.op = "circle" -> 9
      [] c.role = "rearspar_cross_h" /\ c.op = "polyline" -> 10
      [] c.role = "rearspar_cross_v" /\ c.op = "polyline" -> 11
      [] c.role = "bracing_hole" /\ c.op = "circle" -> 12
      [] c.op = "save" -> 13
      [] OTHER -> 0

\* C4: in every Rib.draw pass the sink calls come in this order: wing-outline
\* polyline, chord polyline, rib-outline polyline, the stringer-hole polylines,
\* beam-hole circle and its two crosshairs, rib-name text, rear-spar circle and
\* its two crosshairs, the bracing circles, save(); a pass that returns has
\* called save() exactly once, as its last call, and no call follows a save().
C4_SinkCallOrder ==
    \A h \in Handles :
        LET n == Len(h.calls) IN
        /\ n > 0 => Rank(h.calls[1]) = 1
        /\ \A i \in 2..n :
              LET a == Rank(h.calls[i - 1])
                  b == Rank(h.calls[i])
              IN  \/ b = a + 1
                  \/ b = a /\ b \in {4, 12}
                  \/ a = 3 /\ b = 5
        /\ CountCalls(h.calls, "save") <= 1
        /\ PassCompleted(h) =>
              /\ CountCalls(h.calls, "save") = 1
              /\ h.calls[n].op = "save"

C4_Witness ==
    /\ pc = "done"
    /\ \E h \in Handles : Len(ribs[h.rib].stringers) = 2 /\ PassCompleted(h)
    /\ \E h \in Handles : Len(ribs[h.rib].stringers) = 0 /\ PassCompleted(h)

\* C5: a completed draw of a rib with S stringers has emitted exactly 7+S
\* polylines, 1 text, and 2 circles (beam hole, rear spar) plus the bracing
\* circles; with S = 0 and bracing_hole_pos = 0.4: 7 polylines, 1 text, 4 circles.
C5_PrimitiveCounts ==
    \A h \in Handles :
        PassCompleted(h) =>
            LET rib == ribs[h.rib]
                S == Len(rib.stringers)
            IN  /\ CountCalls(h.calls, "polyline") = 7 + S
                /\ Len(WithRole(h.calls, "stringer_hole")) = S
                /\ CountCalls(h.calls, "text") = 1
                /\ CountCalls(h.calls, "circle")
                      = 2 + Len(WithRole(h.calls, "bracing_hole"))
                /\ Len(WithRole(h.calls, "beam_hole")) = 1
                /\ Len(WithRole(h.calls, "rearspar_hole")) = 1
                /\ (S = 0 /\ rib.bracing_hole_pos = Q(2, 5)) =>
                      /\ CountCalls(h.calls, "polyline") = 7
                      /\ CountCalls(h.calls, "text") = 1
                      /\ CountCalls(h.calls, "circle") = 4

C5_Witness ==
    /\ \E h \in Handles :
          /\ PassCompleted(h)
          /\ ribs[h.rib].stringers = <<>>
          /\ ribs[h.rib].bracing_hole_pos = Q(2, 5)
    /\ \E h \in Handles : PassCompleted(h) /\ Len(ribs[h.rib].stringers) = 2

\* the point that divides the segment from p to q at ratio r
DividingPoint(p, q, r) ==
    Pt(QAdd(QMul(QSub(QInt(1), r), PX(p)), QMul(r, PX(q))),
       QAdd(QMul(QSub(QInt(1), r), PY(p)), QMul(r, PY(q))))

\* C6: the bracing step emits one circle when bracing_hole_pos is exactly 0.5
\* and two otherwise, centred on the points dividing the segment from the
\* beam-hole centre to the rear-spar-hole centre at ratio bracing_hole_pos and
\* at ratio 1 - bracing_hole_pos, each of radius rearspar.diameter / 2.
C6_BracingHoles ==
    \A h \in Handles :
        PastBracing(h) =>
            LET rib == ribs[h.rib]
                pos == rib.bracing_hole_pos
                beam == WithRole(h.calls, "beam_hole")[1].center
                spar == WithRole(h.calls, "rearspar_hole")[1].center
                holes == WithRole(h.calls, "bracing_hole")
            IN  /\ Len(holes) = IF pos = Q(1, 2) THEN 1 ELSE 2
                /\ holes[1].center = DividingPoint(beam, spar, pos)
                /\ Len(holes) = 2 =>
                      holes[2].center = DividingPoint(beam, spar, QSub(QInt(1), pos))
                /\ \A i \in 1..Len(holes) :
                      /\ holes[i].op = "circle"
                      /\ QMul(holes[i].radius, QInt(2)) = rib.rearspar.diameter

C6_Witness ==
    /\ \E h \in Handles : PastBracing(h) /\ ribs[h.rib].bracing_hole_pos = Q(1, 2)
    /\ \E h \in Handles :
          /\ PastBracing(h)
          /\ ribs[h.rib].bracing_hole_pos = Q(2, 5)
          /\ WithRole(h.calls, "beam_hole")[1].center[2]
                # WithRole(h.calls, "rearspar_hole")[1].center[2]

RunEnded == pc \in {"done", "aborted"}

\* rib j has been drawn and its drawing saved
DrawnAndSaved(j) ==
    \E h \in Handles :
        /\ h.rib = j
        /\ Len(h.calls) > 0
        /\ h.calls[Len(h.calls)].op = "save"
        /\ h.path \in DOMAIN disk

\* the draw of rib j raised
DrawFailed(j) == pc = "aborted" /\ j = rib_idx /\ j >= 1 /\ step # "idle"

\* C9: in the batch draw, if drawing one rib fails every other rib of the list
\* is still drawn and saved, and the failure is reported to the caller.
C9_FailureIsolated ==
    \A j \in 1..Len(ribs) :
        (RunEnded /\ DrawFailed(j)) =>
            /\ error # "none"
            /\ \A k \in 1..Len(ribs) : k # j => DrawnAndSaved(k)

TableMalformed == \E i \in 3..Len(table) : ~table[i].cells_ok

\* the airfoil names the rows of the table refer to
Referenced ==
    {table[i].airfoil0 : i \in 3..Len(table)}
        \cup ({table[i].airfoil1 : i \in 3..Len(table)} \ {""})

AirfoilMalformed == ~TableMalformed /\ \E a \in Referenced : files[a] = "malformed"

NothingDrawn == handles = <<>> /\ disk = NoFile

DrawingOf(j) == CHOOSE h \in Handles : h.rib = j

\* C11: after a batch draw of n ribs completes there are exactly n output
\* artifacts, one per rib, each named by its rib's name; no rib's artifact is
\* overwritten or shared by another rib of the same batch.
C11_OneArtifactPerRib ==
    pc = "done" =>
        /\ Cardinality(DOMAIN disk) = Len(ribs)
        /\ \A j \in 1..Len(ribs) :
              /\ DrawingOf(j).path = ribs[j].name
              /\ ribs[j].name \in DOMAIN disk
              /\ disk[ribs[j].name] \o <<Save>> = DrawingOf(j).calls
        /\ \A j, k \in 1..Len(ribs) : j # k => DrawingOf(j).path # DrawingOf(k).path

(***************************************************************************)
(* ribhandler.py, Rib.__draw_airfoil_outline: the raw airfoil is cut at    *)
(* its highest and its lowest point into three arcs, each arc is resampled *)
(* by a PCHIP interpolant (scipy.interpolate.PchipInterpolator) and the    *)
(* arcs are joined and scaled by the chord.                                *)
(***************************************************************************)
NUM_POINTS_TO_DRAW_OUTLINE == 200

\* np.argmax(raw_points[:, 1]) and np.argmin(raw_points[:, 1]), 1-based: the
\* first index of the greatest and of the least y
ArgMaxY(points) ==
    CHOOSE i \in 1..Len(points) :
        /\ \A j \in 1..Len(points) : QLe(PY(points[j]), PY(points[i]))
        /\ \A j \in 1..(i - 1) : QLt(PY(points[j]), PY(points[i]))

ArgMinY(points) ==
    CHOOSE i \in 1..Len(points) :
        /\ \A j \in 1..Len(points) : QLe(PY(points[i]), PY(points[j]))
        /\ \A j \in 1..(i - 1) : QLt(PY(points[i]), PY(points[j]))

\* raw_points[:i0+1], raw_points[i0:i1+1], raw_points[i1:]
raw_sections(raw_points) ==
    LET i0 == ArgMaxY(raw_points)
        i1 == ArgMinY(raw_points)
    IN  << SubSeq(raw_points, 1, i0), SubSeq(raw_points, i0, i1),
           SubSeq(raw_points, i1, Len(raw_points)) >>

\* the samples <<abscissa, ordinate>> handed to the interpolant for section i:
\* the first is reversed, the second reversed with x and y exchanged
Knots(i, raw_section) ==
    IF i = 1 THEN Reverse(raw_section)
    ELSE IF i = 2
    THEN Array([k \in 1..Len(raw_section) |->
             Pt(PY(Reverse(raw_section)[k]), PX(Reverse(raw_section)[k]))])
    ELSE raw_section

\* PchipInterpolator raises ValueError unless it is given at least two samples
\* with strictly increasing abscissae
PchipRaises(knots) ==
    \/ Len(knots) < 2
    \/ \E k \in 1..(Len(knots) - 1) : ~QLt(PX(knots[k]), PX(knots[k + 1]))

QSign(a) == Sign(a[1])

\* hk = x[1:] - x[:-1] and mk = (y[1:] - y[:-1]) / hk
Hk(knots) == Array([k \in 1..(Len(knots) - 1) |-> QSub(PX(knots[k + 1]), PX(knots[k]))])

Mk(knots) ==
    Array([k \in 1..(Len(knots) - 1) |->
        QDiv(QSub(PY(knots[k + 1]), PY(knots[k])), Hk(knots)[k])])

\* PchipInterpolator._edge_case: the one-sided three-point estimate, set to
\* zero or limited to 3*m0 to preserve the shape
edge_case(h0, h1, m0, m1) ==
    LET d == QDiv(QSub(QMul(QAdd(QMul(QInt(2), h0), h1), m0), QMul(h0, m1)),
                  QAdd(h0, h1))
    IN  IF QSign(d) # QSign(m0) THEN QInt(0)
        ELSE IF QSign(m0) # QSign(m1) /\ QLt(QMul(QInt(3), QAbs(m0)), QAbs(d))
        THEN QMul(QInt(3), m0)
        ELSE d

\* PchipInterpolator._find_derivatives: the slope for two samples; otherwise
\* zero at a local extremum, the weighted harmonic mean of the neighbouring
\* slopes elsewhere, and the edge estimates at the two ends
find_derivatives(knots) ==
    LET n == Len(knots)
        hk == Hk(knots)
        mk == Mk(knots)
    IN  IF n = 2 THEN <<mk[1], mk[1]>>
        ELSE Array([k \in 1..n |->
            IF k = 1 THEN edge_case(hk[1], hk[2], mk[1], mk[2])
            ELSE IF k = n THEN edge_case(hk[n - 1], hk[n - 2], mk[n - 1], mk[n - 2])
            ELSE IF \/ QSign(mk[k]) # QSign(mk[k - 1])
                    \/ mk[k] = QInt(0) \/ mk[k - 1] = QInt(0)
            THEN QInt(0)
            ELSE LET w1 == QAdd(QMul(QInt(2), hk[k]), hk[k - 1])
                     w2 == QAdd(hk[k], QMul(QInt(2), hk[k - 1]))
                     whmean == QDiv(QAdd(QDiv(w1, mk[k - 1]), QDiv(w2, mk[k])),
                                    QAdd(w1, w2))
                 IN  QDiv(QInt(1), whmean)])

\* CubicHermiteSpline: the coefficients of the cubic on each interval, highest
\* power first, in powers of (q - x[k])
Coefficients(knots) ==
    LET hk == Hk(knots)
        mk == Mk(knots)
        dk == find_derivatives(knots)
    IN  Array([k \in 1..(Len(knots) - 1) |->
            LET t == QDiv(QSub(QAdd(dk[k], dk[k + 1]), QMul(QInt(2), mk[k])), hk[k])
            IN  << QDiv(t, hk[k]),
                   QSub(QDiv(QSub(mk[k], dk[k]), hk[k]), t),
                   dk[k],
                   PY(knots[k]) >>])

\* pchip(q): the cubic of the interval with x[k] <= q < x[k+1] (the last
\* interval holds its right end too)
PchipAt(knots, c, q) ==
    LET k == Clip(Cardinality({j \in 1..Len(knots) : QLe(PX(knots[j]), q)}),
                  1, Len(knots) - 1)
        s == QSub(q, PX(knots[k]))
    IN  QAdd(QMul(QAdd(QMul(QAdd(QMul(c[k][1], s), c[k][2]), s), c[k][3]), s), c[k][4])

\* np.linspace(start, stop, num), 1-based; the last sample is stop itself
Linspace(start, stop, num) ==
    Array([j \in 1..num |->
        IF j = num THEN stop
        ELSE QAdd(start, QMul(QInt(j - 1), QDiv(QSub(stop, start), QInt(num - 1))))])

\* the one element of a singleton; { e(x) : x \in {v} } names v once, as a
\* local variable of the code does
The(S) == CHOOSE x \in S : TRUE

\* the resampled section i, back in outline order as points <<x, y>>
interpolated_section(i, knots) ==
    The({ The({ IF i = 1 THEN Reverse(q)
                ELSE IF i = 2
                THEN Array([j \in 1..Len(q) |->
                         Pt(PY(q[Len(q) + 1 - j]), PX(q[Len(q) + 1 - j]))])
                ELSE q
                : q \in {Array([j \in 1..Len(qx) |-> Pt(qx[j], PchipAt(kn, c, qx[j]))])} })
          : kn \in {knots},
            qx \in {Linspace(PX(knots[1]), PX(knots[Len(knots)]),
                             NUM_POINTS_TO_DRAW_OUTLINE)},
            c \in {Coefficients(knots)} })

DropLast(s) == SubSeq(s, 1, Len(s) - 1)

\* a plausible slip: the last arc joined whole
Joined_last_whole(sections) ==
    DropLast(sections[1]) \o DropLast(sections[2]) \o sections[3]
        \o <<Pt(QInt(1), QInt(0))>>

\* the loop over the sections appends interpolated_section[:-1] each time; the
\* trailing edge [1, 0] is appended after it
Joined(sections) ==
    DropLast(sections[1]) \o DropLast(sections[2]) \o DropLast(sections[3])
        \o <<Pt(QInt(1), QInt(0))>>

\* the three resampled arcs of a raw airfoil
Arcs(raw_points) ==
    Array([i \in 1..3 |-> interpolated_section(i, Knots(i, raw_sections(raw_points)[i]))])

\* __draw_airfoil_outline: the points of wing_outline (also the first polyline)
\* and the chord line drawn after it, or the exception of the interpolant
airfoil_outline(raw_points, chord) ==
    IF \E i \in 1..3 : PchipRaises(Knots(i, raw_sections(raw_points)[i]))
    THEN [kind |-> "ValueError", points |-> <<>>, chordline |-> <<>>]
    ELSE The({ [kind |-> "ok", points |-> scaled, chordline |-> <<Zero2, scaled[1]>>]
               : scaled \in
                   { Array([j \in 1..Len(interpolated_points) |->
                         VScale(interpolated_points[j], chord)])
                     : interpolated_points \in {Joined(Arcs(raw_points))} } })

(***************************************************************************)
(* ribhandler.py, Rib.__draw_rib_outline.  The tangents of a resampled     *)
(* outline have irrational lengths, so a point that dxfdrawer.offset       *)
(* returns is held as the point it was moved from, the vector its tangent  *)
(* angle is taken of and the distance it is moved along the left normal.   *)
(***************************************************************************)
Moved(points, i, distance) ==
    [ from |-> points[i],
      tangent |-> VSub(TangentTo(points, i), TangentFrom(points, i)),
      distance |-> distance ]

\* dxfdrawer.offset(points, distance) with the default direction
offset_lefthand(points, distance) ==
    Array([i \in 1..Len(points) |-> Moved(points, i, distance)])

\* np.sum(points > threshold): the comparison is made on every element of the
\* n-by-2 array, the x and the y of each point
CountAbove(points, threshold) ==
    Cardinality({ic \in (1..Len(points)) \X {1, 2} : QLt(threshold, points[ic[1]][ic[2]])})

\* Python's s[start:stop]: a negative index counts from the end, both are
\* clamped to the sequence
Slice(s, start, stop) ==
    LET lo == Clip(IF start < 0 THEN start + Len(s) ELSE start, 0, Len(s))
        hi == Clip(IF stop < 0 THEN stop + Len(s) ELSE stop, 0, Len(s))
    IN  SubSeq(s, lo + 1, hi)

\* a plausible slip: the front segment taken strictly between the two indices
front_points_between(all, upper_plank_end_idx, lower_plank_end_idx) ==
    Slice(all, upper_plank_end_idx + 1, lower_plank_end_idx - 1)

\* self.wing_outline.get_points("all")[upper_plank_end_idx:lower_plank_end_idx]
front_points(all, upper_plank_end_idx, lower_plank_end_idx) ==
    Slice(all, upper_plank_end_idx, lower_plank_end_idx)

\* __draw_rib_outline: the two plank-end indices, the three offset segments and
\* their concatenation (the polyline drawn and kept as rib_outline); offset
\* reads points[1] and points[-2], an IndexError on a segment of one point
rib_outline(wing_outline, rib) ==
    The({ The({
        IF Len(upper_capped) < 2 \/ Len(lower_capped) < 2 \/ Len(front) < 2
        THEN [ kind |-> "IndexError", upper_plank_end_idx |-> upper_plank_end_idx,
               lower_plank_end_idx |-> lower_plank_end_idx, upper_capped |-> <<>>,
               front_planked |-> <<>>, lower_capped |-> <<>>, points |-> <<>> ]
        ELSE The({ [ kind |-> "ok", upper_plank_end_idx |-> upper_plank_end_idx,
                     lower_plank_end_idx |-> lower_plank_end_idx,
                     upper_capped |-> capped0, front_planked |-> planked,
                     lower_capped |-> capped1,
                     points |-> capped0 \o planked \o capped1 ]
                   : capped0 \in {offset_lefthand(upper_capped, rib.ribcap_thickness)},
                     planked \in {offset_lefthand(front, rib.plank_thickness)},
                     capped1 \in {offset_lefthand(lower_capped, rib.ribcap_thickness)} })
        : upper_capped \in {Slice(upper_points, 0, upper_plank_end_idx + 1)},
          lower_capped \in {Slice(lower_points, lower_plank_end_idx - 1, Len(lower_points))},
          front \in {front_points(wing_outline, upper_plank_end_idx, lower_plank_end_idx)} })
      : upper_points \in {get_points(wing_outline, "upper")},
        lower_points \in {get_points(wing_outline, "lower")},
        upper_plank_end_idx \in
            {CountAbove(get_points(wing_outline, "upper"),
                        QMul(rib.chord, rib.upper_plank_end_x))},
        lower_plank_end_idx \in
            {-CountAbove(get_points(wing_outline, "lower"),
                         QMul(rib.chord, rib.lower_plank_end_x))} })

(***************************************************************************)
(* The two outline steps of Rib.draw applied in turn to airfoils of a      *)
(* bounded family: thin and thick four-sided profiles with a knot at       *)
(* x = k/KnotDen on each surface, a profile with a blunt nose and an open  *)
(* trailing edge, and a flat one the interpolant rejects.                  *)
(***************************************************************************)
ThinAirfoil(k) ==
    << Pt(QInt(1), QInt(0)), Pt(Q(k, KnotDen), Q(1, 2)), Pt(QInt(0), QInt(0)),
       Pt(Q(k, KnotDen), Q(-1, 2)), Pt(QInt(1), QInt(0)) >>

BluntAirfoil ==
    << Pt(QInt(1), QInt(0)), Pt(Q(1, 2), QInt(2)), Pt(QInt(0), QInt(3)),
       Pt(QInt(0), QInt(0)), Pt(Q(1, 2), QInt(-1)), Pt(QInt(1), Q(-1, 2)) >>

OutlineAirfoils ==
    {ThinAirfoil(k) : k \in 1..(KnotDen - 1)} \cup ValidAirfoils \cup {ShortAirfoil}

\* the chords of the ribs drawn
OutlineChords == {QInt(1), QInt(10)}

\* <<upper_plank_end_x, lower_plank_end_x>>
PlankEnds == {<<Q(3, 4), Q(1, 2)>>, <<Q(1, 4), Q(1, 5)>>, <<QInt(1), Q(1, 2)>>}

OutlineRib(chord, ends) ==
    [ chord |-> chord, upper_plank_end_x |-> ends[1], lower_plank_end_x |-> ends[2],
      plank_thickness |-> QInt(2), ribcap_thickness |-> QInt(1) ]

InitOutline ==
    /\ RunIdle
    /\ \E ends \in PlankEnds :
          \/ \E airfoil \in OutlineAirfoils, chord \in OutlineChords :
                call = [fn |-> "draw_outline", airfoil |-> airfoil,
                        rib |-> OutlineRib(chord, ends)]
          \/ call = [fn |-> "draw_outline", airfoil |-> BluntAirfoil,
                     rib |-> OutlineRib(QInt(1), ends)]
    /\ ret = [wing |-> Pending, rib |-> Pending]

CallDrawAirfoilOutline ==
    /\ call.fn = "draw_outline"
    /\ ret.wing = Pending
    /\ ret' = [ret EXCEPT !.wing = airfoil_outline(call.airfoil, call.rib.chord)]
    /\ UNCHANGED <<call, runvars>>

CallDrawRibOutline ==
    /\ call.fn = "draw_outline"
    /\ ret.wing.kind = "ok"
    /\ ret.rib = Pending
    /\ ret' = [ret EXCEPT !.rib = rib_outline(ret.wing.points, call.rib)]
    /\ UNCHANGED <<call, runvars>>

NextOutline == CallDrawAirfoilOutline \/ CallDrawRibOutline

SpecOutline == InitOutline /\ [][NextOutline]_vars

WingOutlineDrawn == call.fn = "draw_outline" /\ ret.wing.kind = "ok"

Scaled(points, chord) == [j \in 1..Len(points) |-> VScale(points[j], chord)]

\* C12 (as the claim has it): the wing outline is the first and the second
\* resampled arc without their last points, the third arc whole, then the
\* trailing-edge point (1,0), all scaled by chord; its final point is (chord, 0).
C12_FinalArcWhole ==
    WingOutlineDrawn =>
        LET arcs == Arcs(call.airfoil)
            outline == ret.wing.points
        IN  /\ outline = Scaled(DropLast(arcs[1]) \o DropLast(arcs[2]) \o arcs[3]
                                    \o <<Pt(QInt(1), QInt(0))>>, call.rib.chord)
            /\ outline[Len(outline)] = Pt(call.rib.chord, QInt(0))

\* C12 (corrected): each of the three resampled arcs, the final one too,
\* loses its last point, and the trailing-edge point (1,0) takes the place of
\* the final arc's last point: the wing outline has 3(N-1)+1 points, arc a
\* fills positions (a-1)(N-1)+1 .. a(N-1) with its first N-1 points scaled by
\* chord, so the raw airfoil's first, highest and lowest points are kept and
\* its last one is not; the final point is exactly (chord, 0).
C12_EveryArcLosesLastPoint ==
    WingOutlineDrawn =>
        LET arcs == Arcs(call.airfoil)
            outline == ret.wing.points
            chord == call.rib.chord
            N == NUM_POINTS_TO_DRAW_OUTLINE
        IN  /\ Len(outline) = 3 * (N - 1) + 1
            /\ \A a \in 1..3 : \A j \in 1..(N - 1) :
                   outline[(a - 1) * (N - 1) + j] = VScale(arcs[a][j], chord)
            /\ outline[1] = VScale(call.airfoil[1], chord)
            /\ outline[N] = VScale(call.airfoil[ArgMaxY(call.airfoil)], chord)
            /\ outline[2 * N - 1] = VScale(call.airfoil[ArgMinY(call.airfoil)], chord)
            /\ outline[Len(outline)] = Pt(chord, QInt(0))
            /\ ret.wing.chordline = <<Zero2, outline[1]>>

C12_Witness ==
    /\ WingOutlineDrawn
    /\ call.airfoil[Len(call.airfoil)] # Pt(QInt(1), QInt(0))
    /\ ret.wing.points[Len(ret.wing.points) - 1]
          # VScale(call.airfoil[Len(call.airfoil)], call.rib.chord)

RibOutlineDrawn == call.fn = "draw_outline" /\ ret.rib.kind = "ok"

\* the wing-outline points a segment of the rib outline was offset from
Froms(segment) == [i \in 1..Len(segment) |-> segment[i].from]

\* the 1-based positions in the wing outline of the point at the upper
\* plank-end index and of the point at the lower plank-end index (the index
\* -n names the n-th point from the end)
UpperEnd == ret.rib.upper_plank_end_idx + 1
LowerEnd == Len(ret.wing.points) + ret.rib.lower_plank_end_idx + 1

RibOutlineCalled == call.fn = "draw_outline" /\ ret.rib # Pending

\* the upper-surface points whose x lies beyond the upper plank-end station
BeyondUpperPlankEnd ==
    LET upper == get_points(ret.wing.points, "upper")
        station == QMul(call.rib.chord, call.rib.upper_plank_end_x)
    IN  {i \in 1..Len(upper) : QLt(station, PX(upper[i]))}

\* C14: the upper plank-end index is the number of upper-surface points whose
\* x exceeds chord * upper_plank_end_x, whatever their y is, and the upper
\* rib-cap segment is the upper-surface prefix up to and including that index.
C14_PlankEndCountsX ==
    RibOutlineCalled =>
        LET upper == get_points(ret.wing.points, "upper")
            idx == Cardinality(BeyondUpperPlankEnd)
        IN  /\ ret.rib.upper_plank_end_idx = idx
            /\ ret.rib.kind = "ok" =>
                   Froms(ret.rib.upper_capped) = SubSeq(upper, 1, idx + 1)

(***************************************************************************)
(* ribhandler.py, Rib.__draw_main_beam_hole and Rib.__draw_rearspar_hole.  *)
(* A real number that np.deg2rad has been applied to is held exactly, as   *)
(* the coefficients <<a, b, c>> of a + b*u + c*u^2 with u = pi/180: a      *)
(* plain number is <<a, 0, 0>>, an angle of b degrees in radians is        *)
(* <<0, b, 0>>.  The cosine and sine of such an angle are irrational in    *)
(* general, so a point p + direct(dist, theta) is held as the point p it   *)
(* is moved from, the distance and the angle.                              *)
(***************************************************************************)
Real(a) == <<a, QInt(0), QInt(0)>>

\* np.deg2rad(x): x * pi / 180
deg2rad(x) == <<QInt(0), x[1], x[2]>>

RNeg(x) == <<QNeg(x[1]), QNeg(x[2]), QNeg(x[3])>>

RAdd(x, y) == <<QAdd(x[1], y[1]), QAdd(x[2], y[2]), QAdd(x[3], y[3])>>

\* np.pi
Pi == <<QInt(0), QInt(180), QInt(0)>>

\* np.pi / 2
HalfOfPi == <<QInt(0), QInt(90), QInt(0)>>

\* p + dxfdrawer.direct(dist, theta)
Polar(p, dist, theta) == [from |-> p, dist |-> dist, theta |-> theta]

\* np.interp(x, xp, fp) on samples <<xp, fp>> with xp not decreasing: the end
\* values outside the samples, else the segment with xp[j] <= x < xp[j+1]
interp(x, samples) ==
    LET n == Len(samples)
        j == Cardinality({i \in 1..n : QLe(PX(samples[i]), x)})
    IN  IF j = 0 THEN PY(samples[1])
        ELSE IF j = n THEN PY(samples[n])
        ELSE LET slope == QDiv(QSub(PY(samples[j + 1]), PY(samples[j])),
                               QSub(PX(samples[j + 1]), PX(samples[j])))
             IN  QAdd(QMul(slope, QSub(x, PX(samples[j]))), PY(samples[j]))

\* __draw_main_beam_hole, lines 390-398: the rib outline's two y-values at the
\* beam station and the centre midway between them
BeamHoleCenter(outline, rib) ==
    LET center_x_abs == QMul(rib.beam_hole_x, rib.chord)
        upper_y == interp(center_x_abs, Reverse(get_points(outline, "upper")))
        lower_y == interp(center_x_abs, get_points(outline, "lower"))
        center_y == QDiv(QAdd(upper_y, lower_y), QInt(2))
    IN  [upper_y |-> upper_y, lower_y |-> lower_y, center |-> Pt(center_x_abs, center_y)]

\* a plausible slip: each arm of the vertical line half the thickness long
vertical_line_half_arms(center, thickness, aoa) ==
    << Polar(center, QDiv(thickness, QInt(2)), RAdd(aoa, HalfOfPi)),
       Polar(center, QDiv(thickness, QInt(2)), RAdd(aoa, RNeg(HalfOfPi))) >>

\* __draw_main_beam_hole, lines 410-417: upper_point and lower_point
vertical_line(center, thickness, aoa) ==
    << Polar(center, thickness, RAdd(aoa, HalfOfPi)),
       Polar(center, thickness, RAdd(aoa, RNeg(HalfOfPi))) >>

\* __draw_main_beam_hole: the centre kept as __beam_hole_center, the circle
\* and the two reference lines drawn
main_beam_hole(outline, rib) ==
    LET at == BeamHoleCenter(outline, rib)
        aoa == deg2rad(Real(rib.aoa))
        left_point == Polar(at.center,
                            QMul(QMul(rib.chord, rib.beam_hole_x), Q(6, 5)),
                            RAdd(aoa, Pi))
        right_point == Polar(left_point, QMul(rib.chord, Q(6, 5)), aoa)
        thickness == QSub(at.upper_y, at.lower_y)
    IN  [ kind |-> "ok", upper_y |-> at.upper_y, lower_y |-> at.lower_y,
          beam_hole_center |-> at.center,
          circle |-> Circle("beam_hole", at.center, QDiv(rib.beam_diameter, QInt(2))),
          horizontal |-> <<left_point, right_point>>,
          vertical |-> vertical_line(at.center, thickness, aoa) ]

\* _RearSpar.__init__: self.__theta = -np.deg2rad(theta)
RearSpar(diameter, dist, theta) ==
    [diameter |-> diameter, dist |-> dist, theta |-> RNeg(deg2rad(Real(theta)))]

\* __draw_rearspar_hole: the centre kept as rearspar_hole_center, the circle
\* and the two centre marks
rearspar_hole(beam_hole_center, rearspar, rib) ==
    LET center == Polar(beam_hole_center, rearspar.dist, deg2rad(rearspar.theta))
        aoa == deg2rad(Real(rib.aoa))
    IN  [ kind |-> "ok", rearspar_hole_center |-> center,
          radius |-> QDiv(rearspar.diameter, QInt(2)),
          horizontal |-> << Polar(center, rearspar.diameter, RAdd(aoa, Pi)),
                            Polar(center, rearspar.diameter, aoa) >>,
          vertical |-> << Polar(center, rearspar.diameter, RAdd(aoa, HalfOfPi)),
                          Polar(center, rearspar.diameter, RAdd(aoa, RNeg(HalfOfPi))) >> ]

(***************************************************************************)
(* The two hole steps applied in turn to rib outlines of known shape with  *)
(* a chord of 200: a flat plate and wedges with a knot at mid-chord.       *)
(***************************************************************************)
BeamDen == 4

PlateOutline(t) ==
    << Pt(QInt(200), Q(t, 2)), Pt(QInt(0), Q(t, 2)),
       Pt(QInt(0), Q(-t, 2)), Pt(QInt(200), Q(-t, 2)) >>

WedgeOutline(a, b) ==
    << Pt(QInt(200), QInt(0)), Pt(QInt(100), QInt(a)), Pt(QInt(0), QInt(0)),
       Pt(QInt(100), QInt(-b)), Pt(QInt(200), QInt(0)) >>

RibOutlines == {PlateOutline(8), WedgeOutline(8, 4), WedgeOutline(12, 4), WedgeOutline(6, 6)}

\* angles of attack and rear-spar angles, in degrees as the table gives them
AoaDegrees == {QInt(0), QInt(2), QInt(-5)}
SparDegrees == {QInt(0), QInt(10), QInt(90)}

HoleRib(beam_hole_x, aoa, angle) ==
    [ chord |-> QInt(200), aoa |-> aoa, beam_hole_x |-> beam_hole_x,
      beam_diameter |-> QInt(10), rearspar |-> RearSpar(QInt(6), QInt(30), angle) ]

InitHoles ==
    /\ RunIdle
    /\ \E outline \in RibOutlines, k \in 1..(BeamDen - 1),
          aoa \in AoaDegrees, angle \in SparDegrees :
          call = [fn |-> "draw_holes", rib_outline |-> outline, angle |-> angle,
                  rib |-> HoleRib(Q(k, BeamDen), aoa, angle)]
    /\ ret = [beam |-> Pending, rearspar |-> Pending]

CallDrawMainBeamHole ==
    /\ call.fn = "draw_holes"
    /\ ret.beam = Pending
    /\ ret' = [ret EXCEPT !.beam = main_beam_hole(call.rib_outline, call.rib)]
    /\ UNCHANGED <<call, runvars>>

CallDrawRearsparHole ==
    /\ call.fn = "draw_holes"
    /\ ret.beam # Pending
    /\ ret.rearspar = Pending
    /\ ret' = [ret EXCEPT !.rearspar =
                  rearspar_hole(ret.beam.beam_hole_center, call.rib.rearspar, call.rib)]
    /\ UNCHANGED <<call, runvars>>

NextHoles == CallDrawMainBeamHole \/ CallDrawRearsparHole

SpecHoles == InitHoles /\ [][NextHoles]_vars

BeamHoleDrawn == call.fn = "draw_holes" /\ ret.beam # Pending

\* the beam station and the rib outline's upper and lower y there
BeamStation == QMul(call.rib.beam_hole_x, call.rib.chord)
UpperYThere == SurfaceY(get_points(call.rib_outline, "upper"), BeamStation)
LowerYThere == SurfaceY(get_points(call.rib_outline, "lower"), BeamStation)

\* the hole centre is at the beam station, midway between the rib outline's
\* upper and lower y there, and the circle drawn has it for its centre
BeamHoleCentred ==
    /\ ret.beam.beam_hole_center
          = Pt(BeamStation, QDiv(QAdd(UpperYThere, LowerYThere), QInt(2)))
    /\ ret.beam.circle.center = ret.beam.beam_hole_center

\* the two ends of the vertical line lie on opposite sides of the hole centre,
\* at right angles to the chord line turned by the angle of attack, each
\* `arm` away from the centre
VerticalArms(arm) ==
    LET aoa == deg2rad(Real(call.rib.aoa))
        v == ret.beam.vertical
    IN  /\ v[1].from = ret.beam.beam_hole_center
        /\ v[2].from = ret.beam.beam_hole_center
        /\ v[1].theta = RAdd(aoa, HalfOfPi)
        /\ v[1].theta = RAdd(v[2].theta, Pi)
        /\ v[1].dist = arm
        /\ v[2].dist = arm

\* C15 (as the claim has it): the main-beam hole centre has x = beam_hole_x *
\* chord and y midway between the rib outline's upper and lower y at that x; the
\* vertical crosshair is centred on the hole centre and its total length is
\* the local rib thickness upper_y - lower_y.
C15_CrosshairSpansThickness ==
    BeamHoleDrawn =>
        /\ BeamHoleCentred
        /\ VerticalArms(QDiv(QSub(UpperYThere, LowerYThere), QInt(2)))

\* C15 (corrected): the main-beam hole centre has x = beam_hole_x * chord and y
\* midway between the rib outline's upper and lower y at that x; the vertical
\* crosshair is centred on the hole centre and reaches the local rib thickness
\* upper_y - lower_y to each side, a total length of twice the thickness.
C15_CrosshairTwiceThickness ==
    BeamHoleDrawn =>
        /\ BeamHoleCentred
        /\ VerticalArms(QSub(UpperYThere, LowerYThere))

C15_Witness ==
    /\ BeamHoleDrawn
    /\ call.rib.aoa # QInt(0)
    /\ QLt(QInt(0), QSub(UpperYThere, LowerYThere))
    /\ PY(ret.beam.beam_hole_center) # QInt(0)
    /\ BeamStation # QInt(100)

RearsparHoleDrawn == call.fn = "draw_holes" /\ ret.rearspar # Pending

\* C16: the rear-spar hole centre is the beam-hole centre plus the vector of
\* length rearspar.dist at the stored angle rearspar.theta, the negated input
\* angle converted from degrees to radians once and not converted again.
C16_RearsparPolarOffset ==
    RearsparHoleDrawn =>
        /\ call.rib.rearspar.theta = RNeg(deg2rad(Real(call.angle)))
        /\ ret.rearspar.rearspar_hole_center
              = Polar(ret.beam.beam_hole_center, call.rib.rearspar.dist,
                      call.rib.rearspar.theta)

DerivedFields == {"wing_outline", "rib_outline", "beam_hole_center", "rearspar_hole_center"}

Occurrences(seq, x) == Cardinality({i \in 1..Len(seq) : seq[i] = x})

\* the reads of field f noted in the pass over rib j
ReadsOf(j, f) == {i \in 1..Len(derived[j].reads) : derived[j].reads[i].field = f}

\* C17: within one Rib.draw pass each derived field (wing_outline, rib_outline,
\* beam_hole_center, rearspar_hole_center) is written exactly once, and every
\* step that reads a derived field runs after the step that wrote it in the
\* same pass: wing_outline before the rib outline, rib_outline before the
\* stringer holes and the beam hole, beam_hole_center before the name text and
\* the rear-spar hole, rearspar_hole_center before the bracing holes.
C17_WriteOnceReadAfterWrite ==
    \A h \in Handles :
        LET d == derived[h.rib] IN
        /\ \A f \in DerivedFields : Occurrences(d.written, f) <= 1
        /\ \A i \in 1..Len(d.written) : d.written[i] \in DerivedFields
        /\ PassCompleted(h) => \A f \in DerivedFields : Occurrences(d.written, f) = 1
        /\ \A i \in 1..Len(d.reads) : InSeq(d.reads[i].field, d.reads[i].written)
        /\ PastBracing(h) =>
              /\ ReadsOf(h.rib, "wing_outline") # {}
              /\ ReadsOf(h.rib, "rib_outline") # {}
              /\ Cardinality(ReadsOf(h.rib, "beam_hole_center")) = 3
              /\ ReadsOf(h.rib, "rearspar_hole_center") # {}
        /\ Len(WithRole(h.calls, "rib_outline")) > 0 => InSeq("wing_outline", d.written)
        /\ Len(WithRole(h.calls, "stringer_hole")) > 0 => InSeq("rib_outline", d.written)
        /\ Len(WithRole(h.calls, "beam_hole")) > 0 => InSeq("rib_outline", d.written)
        /\ Len(WithRole(h.calls, "rib_name")) > 0 => InSeq("beam_hole_center", d.written)
        /\ Len(WithRole(h.calls, "rearspar_hole")) > 0 =>
              InSeq("beam_hole_center", d.written)
        /\ Len(WithRole(h.calls, "bracing_hole")) > 0 =>
              InSeq("rearspar_hole_center", d.written)

C17_Witness ==
    /\ pc = "done"
    /\ Len(ribs) = 2
    /\ \A h \in Handles :
          /\ PassCompleted(h)
          /\ Len(derived[h.rib].written) = 4
          /\ Len(derived[h.rib].reads) >= 6
    /\ \E h \in Handles : ReadsOf(h.rib, "rib_outline") = {2, 3}

====
